---- MODULE Spec2Model ----
(***************************************************************************)
(* Model of the cart-upsells custom element (assets/cart-upsells.js):      *)
(* the request / cache / render lifecycle of one CartUpsells instance.     *)
(*                                                                         *)
(* One action per handler or continuation of the code:                     *)
(*   connectedCallback   the synchronous part of an activation, up to the  *)
(*                       first await of #loadRecommendations               *)
(*   FetchSettled        the continuation after `await fetch(...)`         *)
(*   TextSettled         the continuation after `await response.text()`    *)
(*   AbortSettled        the continuation of a request whose controller    *)
(*                       was aborted (the awaited promise rejects with     *)
(*                       AbortError)                                       *)
(* The variable acts is the log of activations; its fields st and aborted  *)
(* are the position of each asynchronous call of #loadRecommendations, the *)
(* other fields record what the call did (history).                        *)
(***************************************************************************)
EXTENDS Integers, Sequences, FiniteSets, TLC

\* ---------------------------------------------------------------- bounds
\* Number of activations (connectedCallback calls) in a run.
MaxActivations == 3

\* Largest number of products in the sequences #renderProducts is applied
\* to on its own (RenderSpec).
MaxLen == 5

\* ------------------------------------------------------------- constants
\* Default of maxProducts: parseInt(this.dataset.maxProducts || 9).
DefaultMaxProducts == 9
\* Slides shown at a time: index >= 3 is aria-hidden, slideCount > 3 needs arrows.
VisibleSlides == 3

\* ------------------------------------------------------------ JS values
\* undefined (an absent data- attribute, a failed regexp match).
Absent == "<undefined>"
\* JS falsiness of a string-or-undefined value.
Falsy(s) == s = Absent \/ s = ""
\* An attribute value given as its characters; the absent attribute.
NoAttr == <<Absent>>
FalsyAttr(a) == a = NoAttr \/ a = <<>>
NaN == -1000000

Digits == <<"0", "1", "2", "3", "4", "5", "6", "7", "8", "9">>
IsDigit(c) == \E d \in 1..10 : Digits[d] = c
DigitVal(c) == (CHOOSE d \in 1..10 : Digits[d] = c) - 1

\* Number of leading digit characters of cs.
RECURSIVE LeadingDigits(_)
LeadingDigits(cs) ==
  IF cs = <<>> \/ ~IsDigit(Head(cs)) THEN 0 ELSE 1 + LeadingDigits(Tail(cs))

RECURSIVE DigitsValue(_, _)
DigitsValue(cs, n) ==
  IF n = 0 THEN 0 ELSE DigitsValue(cs, n - 1) * 10 + DigitVal(cs[n])

\* parseInt of a string: optional sign, then the leading digits; NaN if none.
ParseInt(cs) ==
  LET neg  == cs # <<>> /\ Head(cs) = "-"
      body == IF cs # <<>> /\ Head(cs) \in {"-", "+"} THEN Tail(cs) ELSE cs
      n    == LeadingDigits(body)
  IN  IF n = 0 THEN NaN
      ELSE IF neg THEN 0 - DigitsValue(body, n) ELSE DigitsValue(body, n)

\* Array.prototype.slice(0, end).
Slice0(s, end) ==
  LET len == Len(s)
      e   == IF end = NaN THEN 0
             ELSE IF end < 0 THEN (IF len + end < 0 THEN 0 ELSE len + end)
             ELSE IF end > len THEN len ELSE end
  IN  SubSeq(s, 1, e)

\* ------------------------------------------------------- input domains
\* data-product-id, data-url, data-section-id as the host page may set them.
ProductIdValues == {Absent, "", "1", "2"}
UrlValues == {Absent, "/recs"}
SectionIdValues == {Absent, "cart-upsells"}
\* data-max-products, as characters.
MaxProductsValues == {NoAttr, <<"0">>, <<"1">>}
\* The page when #renderProducts reads it: the data-product-id values found
\* in .cart-items__table and on .product-card elements.
Page(t, c) == [table |-> t, cards |-> c]
PageValues == {Page({}, {}), Page({"a"}, {}), Page({""}, {"b"})}

\* A .resource-card element of a response: its outerHTML and the links in
\* it, each link given by the two path segments of its href (/dir/handle).
Card(h, ls) == [html |-> h, links |-> ls]
Link(d, n) == [dir |-> d, handle |-> n]
AllCards ==
  << Card("A", <<Link("products", "a")>>),
     Card("N", <<Link("collections", "all")>>),
     Card("B", <<Link("collections", "all"), Link("products", "b")>>),
     Card("C", <<Link("products", "c")>>),
     Card("D", <<Link("products", "")>>),
     Card("E", <<Link("products", "e")>>),
     Card("F", <<Link("products", "f")>>),
     Card("G", <<Link("products", "g")>>) >>
\* The documents a response body can parse to, each given by the cards
\* querySelectorAll('.resource-card') finds in it: none, one, two.
Responses == { <<>>, SubSeq(AllCards, 1, 1), SubSeq(AllCards, 1, 2) }

\* ------------------------------------------------------- pure functions
\* The request URL, which is also the cache key (a concatenation, kept as
\* the sequence of its pieces).
FetchUrl(url, productId, sectionId) ==
  << url, "&product_id=", productId,
     "&section_id=", IF Falsy(sectionId) THEN "cart-upsells" ELSE sectionId,
     "&intent=", "complementary" >>

\* card.querySelector('a[href*="/products/"]'): the first product link.
RECURSIVE ProductLink(_)
ProductLink(ls) ==
  IF ls = <<>> THEN <<>>
  ELSE IF Head(ls).dir = "products" THEN <<Head(ls)>>
  ELSE ProductLink(Tail(ls))

\* link?.href.match(/\/products\/([^/?]+)/)?.[1]
ExtractId(card) ==
  LET l == ProductLink(card.links)
  IN  IF l = <<>> THEN Absent
      ELSE IF l[1].handle = "" THEN Absent ELSE l[1].handle

\* productCards.map(card => ({ id, html: card.outerHTML }))
ToProducts(cards) ==
  [i \in 1..Len(cards) |-> [id |-> ExtractId(cards[i]), html |-> cards[i].html]]

\* The Set cartItemIds built from the two querySelectorAll passes.
CartItemIds(tableIds, cardIds) ==
  {id \in tableIds : ~Falsy(id)} \cup {id \in cardIds : ~Falsy(id)}

\* Mutant of Keeps: a product without an id is dropped.
KeepsKnownOnly(product, cartItemIds) ==
  ~Falsy(product.id) /\ product.id \notin cartItemIds

\* The predicate of products.filter(...).
Keeps(product, cartItemIds) ==
  IF Falsy(product.id) THEN TRUE ELSE product.id \notin cartItemIds

RECURSIVE FilterProducts(_, _)
FilterProducts(products, cartItemIds) ==
  IF products = <<>> THEN <<>>
  ELSE IF Keeps(Head(products), cartItemIds)
       THEN <<Head(products)>> \o FilterProducts(Tail(products), cartItemIds)
       ELSE FilterProducts(Tail(products), cartItemIds)

\* Mutant of MaxProductsOf: data-max-products is not read.
MaxProductsAlwaysDefault(maxAttr) == DefaultMaxProducts

\* parseInt(this.dataset.maxProducts || 9)
MaxProductsOf(maxAttr) ==
  IF FalsyAttr(maxAttr) THEN DefaultMaxProducts ELSE ParseInt(maxAttr)

\* Mutant of Carousel: the thresholds are off by one (>= 3 slides, index >= 2).
CarouselOffByOne(productsToShow) ==
  [ slides |-> [i \in 1..Len(productsToShow) |->
                  [html |-> productsToShow[i].html,
                   ariaHidden |-> (i - 1 >= VisibleSlides - 1)]],
    arrows |-> Len(productsToShow) >= VisibleSlides ]

\* The carousel wrapper built from productsToShow: its slides (markup and
\* aria-hidden, in order) and whether slideshow-arrows was added.
Carousel(productsToShow) ==
  [ slides |-> [i \in 1..Len(productsToShow) |->
                  [html |-> productsToShow[i].html,
                   ariaHidden |-> (i - 1 >= VisibleSlides)]],
    arrows |-> Len(productsToShow) > VisibleSlides ]

\* #renderProducts applied to the widget's DOM state w = [hidden, content,
\* contentHidden]; products, the page's ids and data-max-products are read
\* when it runs.
RenderProducts(products, cartItemIds, maxAttr, w) ==
  IF Len(products) = 0 THEN [w EXCEPT !.hidden = TRUE]
  ELSE LET filteredProducts == FilterProducts(products, cartItemIds)
       IN  IF Len(filteredProducts) = 0 THEN [w EXCEPT !.hidden = TRUE]
           ELSE LET productsToShow == Slice0(filteredProducts, MaxProductsOf(maxAttr))
                IN  [w EXCEPT !.content = Append(@, Carousel(productsToShow)),
                              !.contentHidden = FALSE]

\* ----------------------------------------------------------------- state
VARIABLES
  hidden,                 \* the element's hidden attribute (this.hidden)
  cachedRecommendations,  \* #cachedRecommendations: cache key -> products
  activeFetch,            \* #activeFetch: 0 (null) or the activation owning the controller
  loadingHidden,          \* .cart-upsells__loading hidden
  contentHidden,          \* .cart-upsells__content hidden
  content,                \* children of .cart-upsells__content, in order
  acts,                   \* one record per connectedCallback call, in order
  call                    \* RenderSpec: the arguments of one #renderProducts call

vars == <<hidden, cachedRecommendations, activeFetch, loadingHidden,
          contentHidden, content, acts, call>>

\* No call of #renderProducts on its own (the lifecycle specification).
NoCall == [st |-> "none"]

\* Positions of a call of #loadRecommendations that is suspended at an await.
Suspended == {"fetch", "text"}

\* The calls not yet run to their end (resolved or not, aborted or not).
Pending == {i \in 1..Len(acts) : acts[i].st \in Suspended}

\* The requests in flight whose controller has not been aborted.
InFlight == {i \in Pending : ~acts[i].aborted}

\* A rejection with AbortError is delivered as a microtask of the task that
\* called abort(); responses of the network arrive in later tasks.
AbortQueued == {i \in Pending : acts[i].aborted}

\* The log entry of an activation.
\*   kind   "skip"    connectedCallback returned at its guard
\*          "missing" #loadRecommendations returned at the parameter check
\*          "hit"     served from the cache
\*          "fetch"   issued a network request
\*   key    the cache key (<<>> when none was built)
\*   st     "fetch"/"text" while suspended, else how the call ended
\*   pend   the calls that were suspended when this activation ran
\*   wrote  the call stored into the cache
\*   used   the product sequences the call passed to #renderProducts
Act(kind, key, st, was, noId, noUrl, used) ==
  [ kind |-> kind, key |-> key, st |-> st, aborted |-> FALSE,
    pend |-> Pending, wasHidden |-> was, noId |-> noId, noUrl |-> noUrl,
    wrote |-> FALSE, used |-> used ]

Init ==
  /\ hidden \in BOOLEAN
  /\ cachedRecommendations = <<>>
  /\ activeFetch = 0
  /\ loadingHidden = TRUE
  /\ contentHidden = TRUE
  /\ content = <<>>
  /\ acts = <<>>
  /\ call = NoCall

\* Mutant of Inert: the guard forgets the hidden attribute.
InertIgnoresHidden(isHidden, productId) == Falsy(productId)

\* connectedCallback's guard: hasAttribute('hidden') || !dataset.productId
Inert(isHidden, productId) == isHidden \/ Falsy(productId)

\* #loadRecommendations' parameter check: !productId || !url
MissingParameters(productId, url) == Falsy(productId) \/ Falsy(url)

\* Mutant of CacheHit: the lookup never finds an entry.
CacheHitNever(cache, cacheKey) == FALSE

\* The cache lookup: this.#cachedRecommendations[cacheKey] is truthy.
CacheHit(cache, cacheKey) == cacheKey \in DOMAIN cache

\* this.#cachedRecommendations[cacheKey] = products
CacheStore(cache, cacheKey, products) ==
  [k \in DOMAIN cache \cup {cacheKey} |->
     IF k = cacheKey THEN products ELSE cache[k]]

\* this.#activeFetch?.abort(): the calls whose awaited promise now rejects.
Aborts(handle) == IF handle = 0 THEN {} ELSE {handle} \cap Pending

\* Mutant of CatchHides: the catch clause does not look at error.name.
CatchHidesAlways(errorName) == TRUE

\* The catch clause: every error but an AbortError hides the widget.
CatchHides(errorName) == errorName # "AbortError"

\* Mutant of EmptyResult: the early return on an empty response is missing.
EmptyResultNever(productCards) == FALSE

\* No product card in the response: hide and return before the cache write.
EmptyResult(productCards) == Len(productCards) = 0

\* Mutant of Finally: the loading indicator is not hidden again.
FinallyKeepsLoading ==
  /\ activeFetch' = 0
  /\ UNCHANGED loadingHidden

\* The finally clause.
Finally ==
  /\ activeFetch' = 0
  /\ loadingHidden' = TRUE

\* connectedCallback, with #loadRecommendations up to its first await.
\* The page's ids and data-max-products are read only where #renderProducts
\* runs, so they are drawn there.
connectedCallback(productId, url, sectionId) ==
  /\ Len(acts) < MaxActivations
  /\ LET me       == Len(acts) + 1
         cacheKey == FetchUrl(url, productId, sectionId)
         noId     == Falsy(productId)
         noUrl    == Falsy(url)
     IN
     IF Inert(hidden, productId) THEN
       /\ acts' = Append(acts, Act("skip", <<>>, "skip", hidden, noId, noUrl, {}))
       /\ UNCHANGED <<hidden, cachedRecommendations, activeFetch,
                      loadingHidden, contentHidden, content>>
     ELSE IF MissingParameters(productId, url) THEN
       /\ hidden' = TRUE
       /\ acts' = Append(acts, Act("missing", <<>>, "missing", hidden, noId, noUrl, {}))
       /\ UNCHANGED <<cachedRecommendations, activeFetch,
                      loadingHidden, contentHidden, content>>
     ELSE IF CacheHit(cachedRecommendations, cacheKey) THEN
       \E page \in PageValues, maxAttr \in MaxProductsValues :
       LET products == cachedRecommendations[cacheKey]
           w == RenderProducts(products, CartItemIds(page.table, page.cards), maxAttr,
                  [hidden |-> hidden, content |-> content,
                   contentHidden |-> contentHidden])
       IN  /\ hidden' = w.hidden
           /\ content' = w.content
           /\ contentHidden' = w.contentHidden
           /\ acts' = Append(acts, Act("hit", cacheKey, "hit", hidden, noId, noUrl, {products}))
           /\ UNCHANGED <<cachedRecommendations, activeFetch, loadingHidden>>
     ELSE
       /\ loadingHidden' = FALSE
       /\ contentHidden' = TRUE
       /\ activeFetch' = me
       /\ acts' = Append(
            [i \in 1..Len(acts) |->
               IF i \in Aborts(activeFetch) THEN [acts[i] EXCEPT !.aborted = TRUE]
               ELSE acts[i]],
            Act("fetch", cacheKey, "fetch", hidden, noId, noUrl, {}))
       /\ UNCHANGED <<hidden, cachedRecommendations, content>>

\* The promise of fetch() settles for a request that was not aborted:
\* outcome "ok" (response.ok), "status" (a response that is not ok) or
\* "reject" (the network failed).
FetchSettled(i, outcome) ==
  /\ i \in InFlight
  /\ acts[i].st = "fetch"
  /\ AbortQueued = {}
  /\ IF outcome = "ok" THEN
       /\ acts' = [acts EXCEPT ![i].st = "text"]
       /\ UNCHANGED <<hidden, cachedRecommendations, activeFetch,
                      loadingHidden, contentHidden, content>>
     ELSE
       /\ hidden' = (IF CatchHides("Error") THEN TRUE ELSE hidden)
       /\ Finally
       /\ acts' = [acts EXCEPT ![i].st = "error"]
       /\ UNCHANGED <<cachedRecommendations, contentHidden, content>>

\* The promise of response.text() rejects for a request that was not aborted.
TextFailed(i) ==
  /\ i \in InFlight
  /\ acts[i].st = "text"
  /\ AbortQueued = {}
  /\ hidden' = (IF CatchHides("TypeError") THEN TRUE ELSE hidden)
  /\ Finally
  /\ acts' = [acts EXCEPT ![i].st = "error"]
  /\ UNCHANGED <<cachedRecommendations, contentHidden, content>>

\* The promise of response.text() resolves for a request that was not
\* aborted: parse, extract, cache, render.
TextSettled(i, productCards) ==
  /\ i \in InFlight
  /\ acts[i].st = "text"
  /\ AbortQueued = {}
  /\ IF EmptyResult(productCards) THEN
       /\ hidden' = TRUE
       /\ Finally
       /\ acts' = [acts EXCEPT ![i].st = "empty"]
       /\ UNCHANGED <<cachedRecommendations, contentHidden, content>>
     ELSE
       \E page \in PageValues, maxAttr \in MaxProductsValues :
       LET products == ToProducts(productCards)
           w == RenderProducts(products, CartItemIds(page.table, page.cards), maxAttr,
                  [hidden |-> hidden, content |-> content,
                   contentHidden |-> contentHidden])
       IN  /\ cachedRecommendations' =
                CacheStore(cachedRecommendations, acts[i].key, products)
           /\ hidden' = w.hidden
           /\ content' = w.content
           /\ contentHidden' = w.contentHidden
           /\ Finally
           /\ acts' = [acts EXCEPT ![i].st = "done", ![i].wrote = TRUE,
                                   ![i].used = {products}]

\* The awaited promise of an aborted request rejects with AbortError.
AbortSettled(i) ==
  /\ i \in AbortQueued
  /\ hidden' = (IF CatchHides("AbortError") THEN TRUE ELSE hidden)
  /\ Finally
  /\ acts' = [acts EXCEPT ![i].st = "cancelled"]
  /\ UNCHANGED <<cachedRecommendations, contentHidden, content>>

Activate ==
  /\ UNCHANGED call
  /\ \E productId \in ProductIdValues, url \in UrlValues,
        sectionId \in SectionIdValues :
       connectedCallback(productId, url, sectionId)

FetchResolves ==
  /\ UNCHANGED call
  /\ \E i \in 1..Len(acts), outcome \in {"ok", "status", "reject"} :
       FetchSettled(i, outcome)

TextRejects ==
  /\ UNCHANGED call
  /\ \E i \in 1..Len(acts) : TextFailed(i)

TextResolves ==
  /\ UNCHANGED call
  /\ \E i \in 1..Len(acts), productCards \in Responses :
       TextSettled(i, productCards)

AbortRejects ==
  /\ UNCHANGED call
  /\ \E i \in 1..Len(acts) : AbortSettled(i)

Next ==
  \/ Activate
  \/ FetchResolves
  \/ TextRejects
  \/ TextResolves
  \/ AbortRejects

Spec == Init /\ [][Next]_vars

\* Every issued request resolves: the promise of fetch() settles, the
\* promise of response.text() settles, and the rejection of an aborted
\* request is delivered.
FairSpec ==
  /\ Spec
  /\ WF_vars(FetchResolves)
  /\ WF_vars(TextResolves \/ TextRejects)
  /\ WF_vars(AbortRejects)

\* ------------------------------------------- #renderProducts on its own
\* The cards a product sequence is drawn from: a product with id "a", one
\* without a product link, one with id "b".
CardPool == {AllCards[1], AllCards[2], AllCards[3]}
\* Card sequences of every length up to MaxLen, and two longer than the
\* default of maxProducts.
CardSeqs ==
  UNION {[1..n -> CardPool] : n \in 0..MaxLen}
    \cup {AllCards \o SubSeq(AllCards, 1, 1), AllCards \o SubSeq(AllCards, 1, 3)}
\* The pages and data-max-products values #renderProducts is applied to.
RenderPages ==
  {Page({}, {}), Page({"a"}, {}), Page({""}, {"b"}), Page({"a"}, {"b"}),
   Page({"b", "c"}, {"e"})}
RenderMaxProducts ==
  {NoAttr, <<>>, <<"0">>, <<"1">>, <<"3">>, <<"4">>, <<"1", "0">>,
   <<"-", "1">>, <<"x">>}

\* A widget that is not hidden, with an empty content region, about to run
\* #renderProducts(products) on a page.
RenderInit ==
  /\ hidden = FALSE
  /\ cachedRecommendations = <<>>
  /\ activeFetch = 0
  /\ loadingHidden = TRUE
  /\ contentHidden = TRUE
  /\ content = <<>>
  /\ acts = <<>>
  /\ \E cards \in CardSeqs, page \in RenderPages, maxAttr \in RenderMaxProducts :
       call = [st |-> "ready", products |-> ToProducts(cards), page |-> page,
               maxAttr |-> maxAttr, cartItemIds |-> {}, filtered |-> <<>>]

\* The call of #renderProducts; cartItemIds and filteredProducts are kept
\* as the call computes them.
RenderCall ==
  /\ call.st = "ready"
  /\ LET cartItemIds == CartItemIds(call.page.table, call.page.cards)
         w == RenderProducts(call.products, cartItemIds, call.maxAttr,
                [hidden |-> hidden, content |-> content,
                 contentHidden |-> contentHidden])
     IN  /\ hidden' = w.hidden
         /\ content' = w.content
         /\ contentHidden' = w.contentHidden
         /\ call' = [call EXCEPT !.st = "done", !.cartItemIds = cartItemIds,
                                 !.filtered = FilterProducts(call.products, cartItemIds)]
  /\ UNCHANGED <<cachedRecommendations, activeFetch, loadingHidden, acts>>

RenderNext == RenderCall

RenderSpec == RenderInit /\ [][RenderNext]_vars

\* ---------------------------------------------------------------- claims
Activations == 1..Len(acts)
\* The activations that issued a network request.
Fetches == {i \in Activations : acts[i].kind = "fetch"}
\* The activations that ran the pipeline (cache or network).
Served == {i \in Activations : acts[i].kind \in {"hit", "fetch"}}
\* A later activation started a network fetch while i was still unresolved.
Overlapped(i) == \E j \in Fetches : j > i /\ i \in acts[j].pend
\* The step is an activation (it appends to the log).
Activating == Len(acts') = Len(acts) + 1
NewAct == acts'[Len(acts) + 1]
\* The step runs the call of activation i to its end with outcome st.
Ends(i, st) == acts[i].st \in Suspended /\ Len(acts') = Len(acts) /\ acts'[i].st = st

\* C1: single-flight. A request that was still unresolved when a later
\* activation started a network fetch never writes the cache and never
\* renders, for every pair of overlapping fetches.
C1_SingleFlight ==
  \A i \in Fetches : Overlapped(i) => ~acts[i].wrote /\ acts[i].used = {}

\* C2: at most one request that was not cancelled is in flight, and
\* starting a fetch cancels every earlier fetch that is still pending.
C2_AtMostOneInFlight ==
  /\ Cardinality(InFlight) <= 1
  /\ \A j \in Fetches : \A i \in acts[j].pend : acts[i].aborted

\* C3 as stated: two activations with the same request key never issue two
\* network requests for it, whatever the timing, and the second uses the
\* products of the first.
C3_CacheIdempotence ==
  \A i \in Served : \A j \in Served :
    (i < j /\ acts[i].key = acts[j].key) =>
      /\ acts[j].kind = "hit"
      /\ acts[j].used = acts[i].used

\* C3 as amended: an activation that runs the pipeline is served from the
\* cache, with no network request, exactly when an earlier fetch for the
\* same key has already stored its products; it then uses a product
\* sequence that such a fetch stored. Before that (the first request still
\* pending) it issues another network request for the key.
C3_CacheIdempotenceAfterStore ==
  [][ (Activating /\ NewAct.kind \in {"hit", "fetch"}) =>
        LET stored == {i \in Fetches : acts[i].wrote /\ acts[i].key = NewAct.key}
        IN  /\ (NewAct.kind = "hit") <=> (stored # {})
            /\ NewAct.kind = "hit" =>
                 /\ \E i \in stored : NewAct.used = acts[i].used
                 /\ \A i \in Activations : acts'[i] = acts[i]
                 /\ UNCHANGED <<cachedRecommendations, activeFetch>> ]_vars

\* C3 witness: a cache hit after a fetch for the same key stored its products.
C3_Witness ==
  \E j \in Activations : \E i \in Fetches :
    i < j /\ acts[j].kind = "hit" /\ acts[i].wrote /\ acts[i].key = acts[j].key

\* C4: of two successive activations with different productId, the first
\* still pending when the second runs (from the network or from the
\* cache), the first is cancelled and never renders.
C4_OnlySecondRenders ==
  \A i \in Fetches :
    LET j == i + 1 IN
    (j \in Served /\ i \in acts[j].pend /\ acts[i].key[3] # acts[j].key[3]) =>
      acts[i].aborted /\ acts[i].used = {}

\* C5: the continuation of an aborted request is inert: it leaves the
\* cache, the content region, the hidden flag, the loading indicator and
\* the handle of the newer fetch unchanged.
C5_CancelledIsInert ==
  [][ \A i \in Activations :
        (i \in AbortQueued /\ Ends(i, "cancelled")) =>
          /\ UNCHANGED <<cachedRecommendations, content, contentHidden,
                         hidden, loadingHidden>>
          /\ activeFetch \notin {0, i} => activeFetch' = activeFetch ]_vars

\* C6: a fetch that ends in a failure other than cancellation leaves the
\* widget hidden; a fetch that ends in cancellation does not set the
\* hidden flag.
C6_FailureSemantics ==
  /\ [](\A i \in Fetches : acts[i].st = "error" => hidden)
  /\ [][ \A i \in Activations :
           /\ Ends(i, "error") => hidden'
           /\ Ends(i, "cancelled") => hidden' = hidden ]_vars

\* C6 witness: one request ended cancelled and a later one ended in error.
C6_Witness ==
  \E i \in Fetches : \E j \in Fetches :
    acts[i].st = "cancelled" /\ acts[j].st = "error" /\ hidden

\* C7: an activation with productId or url absent, or with the widget
\* hidden, issues no request and leaves the cache, the active-request
\* handle, the loading indicator and the content region unchanged.
C7_InertActivation ==
  [][ (Activating /\ (NewAct.noId \/ NewAct.noUrl \/ NewAct.wasHidden)) =>
        /\ NewAct.kind \in {"skip", "missing"}
        /\ \A i \in Activations : acts'[i] = acts[i]
        /\ UNCHANGED <<cachedRecommendations, activeFetch, loadingHidden,
                       content, contentHidden>> ]_vars

\* C7 witness: with a request in flight, an activation with url absent,
\* then an activation with valid parameters of the widget now hidden.
C7_Witness ==
  \E i \in Activations : \E k \in Activations :
    /\ acts[i].noUrl /\ ~acts[i].noId /\ ~acts[i].wasHidden /\ acts[i].pend # {}
    /\ acts[k].wasHidden /\ ~acts[k].noId /\ ~acts[k].noUrl /\ acts[k].pend # {}

\* C8: after an activation with productId missing, or with url missing,
\* the widget is hidden.
C8_MissingParameterHides ==
  \A i \in Activations : (acts[i].noId \/ acts[i].noUrl) => hidden

\* C9 as stated: after a successful response with no product card the
\* widget is hidden and the cache maps the request key to the empty sequence.
C9_EmptyResponseCached ==
  \A i \in Fetches :
    acts[i].st = "empty" =>
      /\ hidden
      /\ acts[i].key \in DOMAIN cachedRecommendations
      /\ cachedRecommendations[acts[i].key] = <<>>

\* C9 as amended: a successful response with no product card hides the
\* widget and writes nothing to the cache: that step leaves the cache
\* unchanged, and the cache never maps a key to the empty sequence.
C9_EmptyResponseNotCached ==
  /\ [](\A k \in DOMAIN cachedRecommendations : Len(cachedRecommendations[k]) > 0)
  /\ [](\A i \in Fetches : acts[i].st = "empty" => hidden /\ ~acts[i].wrote)
  /\ [][ \A i \in Activations :
           Ends(i, "empty") => hidden' /\ UNCHANGED cachedRecommendations ]_vars

\* C9 witness: a request ended on a response without product cards.
C9_Witness ==
  \E i \in Fetches : acts[i].st = "empty" /\ acts[i].key \notin DOMAIN cachedRecommendations

\* C10: no carousel with zero slides is ever in the content region (so an
\* empty sequence after filtering and truncation, as with maxProducts = 0,
\* hides the widget instead).
C10_NoEmptyCarousel ==
  \A n \in 1..Len(content) : Len(content[n].slides) > 0

\* C14: the content region holds at most one carousel, and when a render
\* completes the content region is visible, the loading indicator hidden.
C14_RenderReplaces ==
  /\ [](Len(content) <= 1)
  /\ [][ Len(content') > Len(content) =>
           /\ Len(content') = 1
           /\ ~contentHidden'
           /\ loadingHidden' ]_vars

\* C15: an activation whose key is in the cache issues no request, leaves
\* the loading indicator, the cache and the active-request handle as they
\* are, and renders the cached sequence in the same step.
C15_CacheHitPath ==
  [][ (Activating /\ NewAct.kind \in {"hit", "fetch"}
         /\ NewAct.key \in DOMAIN cachedRecommendations) =>
        LET cached == cachedRecommendations[NewAct.key] IN
        /\ NewAct.kind = "hit"
        /\ NewAct.used = {cached}
        /\ \A i \in Activations : acts'[i] = acts[i]
        /\ UNCHANGED <<cachedRecommendations, activeFetch, loadingHidden>>
        /\ \E page \in PageValues, maxAttr \in MaxProductsValues :
             [hidden |-> hidden', content |-> content',
              contentHidden |-> contentHidden'] =
               RenderProducts(cached, CartItemIds(page.table, page.cards), maxAttr,
                 [hidden |-> hidden, content |-> content,
                  contentHidden |-> contentHidden]) ]_vars

\* C15 witness: a cache hit rendered a carousel while a request was pending.
C15_Witness ==
  \E j \in Activations :
    /\ acts[j].kind = "hit"
    /\ acts[j].pend # {}
    /\ content # <<>>
    /\ ~contentHidden

\* C16: while a request that was not cancelled is in flight, the loading
\* indicator is visible.
C16_LoadingWhileInFlight == InFlight # {} => ~loadingHidden

\* C17: the cache is append-only (a key stays, its sequence never changes)
\* and at most one pending fetch can write it.
C17_CacheAppendOnly ==
  /\ [][ \A k \in DOMAIN cachedRecommendations :
           /\ k \in DOMAIN cachedRecommendations'
           /\ cachedRecommendations'[k] = cachedRecommendations[k] ]_vars
  /\ [](Cardinality(InFlight) <= 1)

\* The terminal states: nothing pending, the widget hidden or a carousel shown.
HiddenState == Pending = {} /\ hidden
RenderedState == Pending = {} /\ ~hidden /\ ~contentHidden /\ content # <<>>
ValidActivation == Activating /\ ~NewAct.noId /\ ~NewAct.noUrl

\* C18 as stated: from Rendered and from Hidden alike, an activation with
\* valid parameters re-enters the pipeline (it fetches or renders).
C18_ReentryFromTerminal ==
  [][ (ValidActivation /\ (HiddenState \/ RenderedState)) =>
        NewAct.kind \in {"hit", "fetch"} ]_vars

\* C18 as amended: from Rendered an activation with valid parameters
\* re-enters the pipeline; from Hidden it does nothing, and no step of the
\* widget clears the hidden flag.
C18_ReentryFromRenderedOnly ==
  /\ [][ (ValidActivation /\ RenderedState) =>
           NewAct.kind \in {"hit", "fetch"} ]_vars
  /\ [][ (ValidActivation /\ HiddenState) =>
           /\ NewAct.kind = "skip"
           /\ UNCHANGED <<hidden, cachedRecommendations, activeFetch,
                          loadingHidden, contentHidden, content>> ]_vars
  /\ [][ hidden => hidden' ]_vars

\* C18 witness: after the first activation rendered and nothing was
\* pending, a second activation of the widget, not hidden, ran the pipeline.
C18_Witness ==
  /\ Len(acts) >= 2
  /\ acts[1].st = "done"
  /\ acts[2].kind \in {"hit", "fetch"}
  /\ acts[2].pend = {}
  /\ ~acts[2].wasHidden

\* C19: the widget is never hidden while its content region is visible
\* with a carousel in it.
C19_HiddenXorRendered == ~(hidden /\ ~contentHidden /\ content # <<>>)

\* Nothing in flight, the loading indicator hidden, the widget hidden or
\* its content region visible.
Settled == Pending = {} /\ loadingHidden /\ (hidden \/ ~contentHidden)

\* C20: if every request resolves, a run in which a fetch was started
\* reaches a state with nothing in flight, the loading indicator hidden and
\* the widget hidden or its content region visible.
C20_NoStuckLoading == (Fetches # {}) ~> Settled

\* C20 witness: a fetch was started and the widget has settled with a
\* carousel shown.
C20_Witness == Fetches # {} /\ Settled /\ ~hidden

\* ------------------------------------------------ claims on RenderSpec
\* The positions of P whose product has no id or an id outside S.
KeptIndices(P, S) == {i \in 1..Len(P) : P[i].id = Absent \/ P[i].id \notin S}
\* The n-th smallest member of the set of positions K.
NthOf(K, n) == CHOOSE i \in K : Cardinality({j \in K : j <= i}) = n
\* The markup of the slides of the last carousel of the content region.
RenderedMarkup ==
  IF content = <<>> THEN <<>>
  ELSE LET slides == content[Len(content)].slides
       IN  [i \in 1..Len(slides) |-> slides[i].html]
\* maxProducts as the page gives it: 9 when absent (or empty), else the number.
GivenMaxProducts ==
  (NoAttr :> 9) @@ (<<>> :> 9) @@ (<<"0">> :> 0) @@ (<<"1">> :> 1)
    @@ (<<"3">> :> 3) @@ (<<"4">> :> 4) @@ (<<"1", "0">> :> 10)
Min(a, b) == IF a < b THEN a ELSE b

\* C11: the filtered sequence holds exactly the products of P whose id is
\* absent or not in the cart-id set S, in their original order.
C11_FilterStable ==
  call.st = "done" =>
    LET K == KeptIndices(call.products, call.cartItemIds)
    IN  /\ Len(call.filtered) = Cardinality(K)
        /\ \A n \in 1..Len(call.filtered) :
             call.filtered[n] = call.products[NthOf(K, n)]

\* C11 witness: a product in the cart was dropped, one without id and
\* another product were kept.
C11_Witness ==
  /\ call.st = "done"
  /\ call.cartItemIds # {}
  /\ Len(call.filtered) < Len(call.products)
  /\ \E m \in 1..Len(call.filtered) : \E n \in 1..Len(call.filtered) :
       m < n /\ call.filtered[m].id = Absent /\ call.filtered[n].id # Absent

\* C12: for maxProducts >= 0 (9 when absent) the products rendered are the
\* first min(|kept|, maxProducts) products of the kept sequence.
C12_CapEnforced ==
  (call.st = "done" /\ call.maxAttr \in DOMAIN GivenMaxProducts) =>
    LET n == Min(Len(call.filtered), GivenMaxProducts[call.maxAttr])
    IN  /\ Len(RenderedMarkup) = n
        /\ \A i \in 1..n : RenderedMarkup[i] = call.filtered[i].html

\* C12 witness: more than nine products kept, no data-max-products, nine rendered.
C12_Witness ==
  /\ call.st = "done"
  /\ call.maxAttr = NoAttr
  /\ Len(call.filtered) > 9
  /\ Len(RenderedMarkup) = 9

\* C13: a rendered carousel has arrows exactly when it has more than three
\* slides, and exactly the slides after the third are aria-hidden; five
\* products with one of them in the cart render four slides with arrows.
C13_ArrowThreshold ==
  /\ \A c \in 1..Len(content) :
       /\ content[c].arrows <=> Len(content[c].slides) > 3
       /\ \A i \in 1..Len(content[c].slides) :
            content[c].slides[i].ariaHidden <=> i > 3
  /\ (call.st = "done" /\ Len(call.products) = 5 /\ Len(call.filtered) = 4
        /\ call.maxAttr = NoAttr) =>
       /\ Len(content) = 1
       /\ Len(content[1].slides) = 4
       /\ content[1].arrows

\* C13 witness: five products, one in the cart, four slides and arrows.
C13_Witness ==
  /\ call.st = "done"
  /\ Len(call.products) = 5
  /\ Len(call.filtered) = 4
  /\ Len(content) = 1
  /\ Len(content[1].slides) = 4
  /\ content[1].arrows
  /\ ~content[1].slides[3].ariaHidden
  /\ content[1].slides[4].ariaHidden

====
